---- MODULE Spec2Model ----
(***************************************************************************)
(* Model of the Instagram OAuth / webhook relay service.                   *)
(*                                                                         *)
(* Text.  A string is modelled as the sequence of its dot-free pieces, so  *)
(* that joining fields with "." is concatenation of piece sequences and    *)
(* String.prototype.split('.') is the sequence itself.  The empty string   *)
(* is the one-piece text << Txt(0) >>.                                     *)
(*                                                                         *)
(* Keyed digest.  HMAC-SHA256 under the server secret is modelled as an    *)
(* ideal MAC: the digest of a text is determined by that text and by       *)
(* nothing else, and digests of different texts differ.  The base64url     *)
(* text of a digest is modelled at the level that the decoder looks at:    *)
(* which digest bits it spells, how many characters it has, and the two    *)
(* low-order padding bits of its last character.                           *)
(***************************************************************************)
EXTENDS Integers, Sequences, FiniteSets, TLC

(***************************************************************************)
(* Bounds of the model                                                     *)
(***************************************************************************)
MaxIssued == 1
MaxTicks == 3

(***************************************************************************)
(* Program constants                                                       *)
(***************************************************************************)
TTL == 600000
DigestBytes == 32
TickStep == 300000

VARIABLES
  now,        \* Date.now()
  ticks,      \* number of clock advances so far
  nonceCtr,   \* number of crypto.randomBytes draws so far
  issued,     \* tokens returned by createSecureState so far
  call,       \* the last call of the codec and its outcome
  env,        \* the default redirect URL the process was configured with
  cookie,     \* the browser's signed oauth_nonce cookie
  req,        \* the last request a controller handled
  resp,       \* the response to that request
  exchanges,  \* the tokens for which exchangeCodeForAuth was called, in order
  consumed,   \* the tokens a callback verified and whose cookie it cleared
  whReq,      \* the POST /webhooks request being handled
  whPc,       \* where its handler is: "idle", "loop" or "done"
  whAck,      \* the status written to the platform, 0 while none is
  whVerify,   \* what verifyWebhookSignature returned for the request
  whTrail,    \* what the handler has done so far, in order
  whPos,      \* number of events of the batch the loop has taken
  forwarded,  \* the posts made to the downstream backend for this request
  appSecret,  \* process.env.INSTAGRAM_APP_SECRET, "" when it is not set
  verifyToken, \* process.env.VERIFY_TOKEN, NoStr when it is not set
  hubReq,     \* the GET /webhooks request handled last
  hubResp,    \* the response to that request
  pubReq,     \* the publish request, or direct service call, being handled
  pubPc,      \* where it is: "idle", "limit", "create", "wait", "publish", "done"
  pubCalls,   \* the platform calls made for it so far, in order, with results
  pubIds,     \* the ids of the containers created for it so far, in order
  pubPolls,   \* the loop counter i of waitForContainerReady
  pubOut,     \* how it ended: an HTTP response, a return or a throw
  quotaUsage, \* the platform's quota_usage of the account
  inflight,   \* the concurrent publishImage requests, each where it is
  rateReport  \* the last response of GET /rate-limit

codecVars == << now, ticks, nonceCtr, issued, call >>

oauthVars == << env, cookie, req, resp, exchanges, consumed >>

webhookVars == << whReq, whPc, whAck, whVerify, whTrail, whPos, forwarded, appSecret >>

hubVars == << verifyToken, hubReq, hubResp >>

publishVars == << pubReq, pubPc, pubCalls, pubIds, pubPolls, pubOut >>

quotaVars == << quotaUsage, inflight, rateReport >>

vars == << now, ticks, nonceCtr, issued, call, oauthVars, webhookVars, hubVars, publishVars,
           quotaVars >>

(***************************************************************************)
(* Strings                                                                 *)
(***************************************************************************)
NoStr == "<undefined>"

NoPayload == [json |-> "none", userId |-> NoStr, callbackUrl |-> NoStr, state |-> << >>]

Piece(k, v, p, d) == [k |-> k, v |-> v, p |-> p, d |-> d]

\* plain dot-free text number i; 0 is the empty string, 1 is a blank
Txt(i) == Piece("txt", << i >>, NoPayload, << >>)

EmptyText == << Txt(0) >>

BlankText == << Txt(1) >>

\* String.prototype.trim() applied to a whole string, compared with ''
IsBlank(text) == text = EmptyText \/ text = BlankText

\* JavaScript truthiness of a string value (undefined is << >>)
Truthy(text) == text # << >> /\ text # EmptyText

(***************************************************************************)
(* Numbers and their decimal text                                          *)
(***************************************************************************)
NaN == -1

\* the decimal text of n; form 0 is what template literals produce, form 1
\* is another spelling of the same number (leading zero, exponent, ...)
NumText(n, form) == Piece("num", << n, form >>, NoPayload, << >>)

\* `${n}` for a finite number
NumStr(n) == NumText(n, 0)

\* Number(piece)
ToNumber(piece) ==
  CASE piece.k = "num" -> piece.v[1]
    [] piece = Txt(0) \/ piece = Txt(1) -> 0
    [] OTHER -> NaN

IsFinite(x) == x # NaN

(***************************************************************************)
(* JSON and base64url                                                      *)
(***************************************************************************)
\* JSON.stringify({ userId, callbackUrl, state }): the text of an object
\* with three string members
JSONstringify(userId, callbackUrl, state) ==
  [json |-> "obj", userId |-> userId, callbackUrl |-> callbackUrl, state |-> state]

\* other payload texts: the literal null, a number literal, text that is
\* not JSON, and a blank string
TextOf(kind) == [json |-> kind, userId |-> NoStr, callbackUrl |-> NoStr, state |-> << >>]

\* JSON.parse(text) throws a SyntaxError on these
JSONparseThrows(text) == text.json \in {"bad", "blank", "none"}

\* reading a member of JSON.parse(text) throws a TypeError on null
MemberThrows(text) == text.json = "null"

\* JSON.parse(text).name for text that parses to a non-null value; a
\* member the value does not have is undefined
Member(text, name) ==
  IF text.json = "obj" THEN text[name]
  ELSE IF name = "state" THEN << >> ELSE NoStr

\* Buffer.from(text).toString('base64url'): one dot-free piece
B64(text) == Piece("b64", << >>, text, << >>)

\* Buffer.from(piece, 'base64url').toString('utf8'); a piece that is not
\* the encoding of a text decodes to bytes that are not JSON
B64Decode(piece) == IF piece.k = "b64" THEN piece.p ELSE TextOf("bad")

\* crypto.randomBytes(16).toString('base64url') for the n-th draw
RandomNonce(n) == Piece("rnd", << n >>, NoPayload, << >>)

(***************************************************************************)
(* signPayload and the signature text                                      *)
(***************************************************************************)
\* number of base64url characters of a digest (no padding characters)
SigChars == (DigestBytes * 8 + 5) \div 6

\* a base64url text spelling the digest of data: flip = 0 when its data
\* bits are those of the digest (flip > 0 names one changed bit), pad is
\* the value of the bits of its last character that carry no data, len its
\* number of characters
SigText(data, flip, pad, len) == Piece("sig", << flip, pad, len >>, NoPayload, data)

signPayload(data) == SigText(data, 0, 0, SigChars)

\* Buffer.from(piece, 'base64url'): the decoder keeps floor(6 * len / 8)
\* bytes and drops the remaining low-order bits of the last character
SigBuffer(piece) ==
  IF piece.k = "sig"
  THEN [length |-> (piece.v[3] * 6) \div 8, bits |-> << piece.d, piece.v[1] >>, other |-> Txt(0)]
  ELSE [length |-> 0, bits |-> << << >>, 0 >>, other |-> piece]

\* crypto.timingSafeEqual on buffers of equal length
timingSafeEqual(a, b) == a.bits = b.bits /\ a.other = b.other

(***************************************************************************)
(* createSecureState                                                       *)
(***************************************************************************)
createSecureStateThrows(payload) == payload.json = "blank"

\* the token text: payloadB64.userState.nonce.timestamp.expiry.signature
createSecureState(payload, userState, nonce, t) ==
  LET timestamp == t
      expiry == timestamp + TTL
      data == << B64(payload) >> \o userState \o << nonce, NumStr(timestamp), NumStr(expiry) >>
  IN  [state |-> data \o << signPayload(data) >>, nonce |-> nonce]

(***************************************************************************)
(* verifySecureState                                                       *)
(***************************************************************************)
NoData ==
  [userId |-> NoStr, callbackUrl |-> NoStr, state |-> << >>,
   nonce |-> Txt(0), timestamp |-> NaN, expiry |-> NaN]

Reject(reason) == [outcome |-> "return", valid |-> FALSE, reason |-> reason, data |-> NoData]

Thrown == [outcome |-> "throw", valid |-> FALSE, reason |-> "TypeError", data |-> NoData]

Accept(data) == [outcome |-> "return", valid |-> TRUE, reason |-> "", data |-> data]

verifySecureState_noExpiry(state, t) ==
  IF IsBlank(state) THEN Reject("state richiesto")
  ELSE IF Len(state) # 6 THEN Reject("formato dello state non valido")
  ELSE
    LET payloadB64 == state[1]
        userState == state[2]
        nonce == state[3]
        timestamp == ToNumber(state[4])
        expiry == ToNumber(state[5])
        signature == state[6]
        data == << payloadB64, userState, nonce, NumStr(timestamp), NumStr(expiry) >>
        sigBuf == SigBuffer(signature)
        expectedBuf == SigBuffer(signPayload(data))
        payloadJson == B64Decode(payloadB64)
    IN  IF ~IsFinite(timestamp) THEN Reject("timestamp non valido")
        ELSE IF ~IsFinite(expiry) THEN Reject("expiry non valido")
        ELSE IF sigBuf.length # expectedBuf.length THEN Reject("firma non valida")
        ELSE IF ~timingSafeEqual(sigBuf, expectedBuf) THEN Reject("firma non valida")
        ELSE IF JSONparseThrows(payloadJson) THEN Reject("payload non valido")
        ELSE IF MemberThrows(payloadJson) THEN Thrown
        ELSE Accept([userId |-> Member(payloadJson, "userId"),
                     callbackUrl |-> Member(payloadJson, "callbackUrl"),
                     state |-> IF Truthy(Member(payloadJson, "state"))
                               THEN Member(payloadJson, "state")
                               ELSE << userState >>,
                     nonce |-> nonce,
                     timestamp |-> timestamp,
                     expiry |-> expiry])

verifySecureState(state, t) ==
  IF IsBlank(state) THEN Reject("state richiesto")
  ELSE IF Len(state) # 6 THEN Reject("formato dello state non valido")
  ELSE
    LET payloadB64 == state[1]
        userState == state[2]
        nonce == state[3]
        timestamp == ToNumber(state[4])
        expiry == ToNumber(state[5])
        signature == state[6]
        data == << payloadB64, userState, nonce, NumStr(timestamp), NumStr(expiry) >>
        sigBuf == SigBuffer(signature)
        expectedBuf == SigBuffer(signPayload(data))
        payloadJson == B64Decode(payloadB64)
    IN  IF ~IsFinite(timestamp) THEN Reject("timestamp non valido")
        ELSE IF ~IsFinite(expiry) THEN Reject("expiry non valido")
        ELSE IF t > expiry THEN Reject("state scaduto")
        ELSE IF sigBuf.length # expectedBuf.length THEN Reject("firma non valida")
        ELSE IF ~timingSafeEqual(sigBuf, expectedBuf) THEN Reject("firma non valida")
        ELSE IF JSONparseThrows(payloadJson) THEN Reject("payload non valido")
        ELSE IF MemberThrows(payloadJson) THEN Thrown
        ELSE Accept([userId |-> Member(payloadJson, "userId"),
                     callbackUrl |-> Member(payloadJson, "callbackUrl"),
                     state |-> IF Truthy(Member(payloadJson, "state"))
                               THEN Member(payloadJson, "state")
                               ELSE << userState >>,
                     nonce |-> nonce,
                     timestamp |-> timestamp,
                     expiry |-> expiry])

(***************************************************************************)
(* The codec called directly: createSecureState and verifySecureState on   *)
(* inputs drawn from bounded sets, the clock advancing between calls       *)
(***************************************************************************)
SubStates == { << Txt(2) >>, << Txt(3), Txt(4) >>, EmptyText }

\* the (payload, userState) pairs createSecureState is called with: the
\* texts of objects with each sub-state, and other texts with one sub-state
CodecInputs ==
  { << JSONstringify("u1", "https://x/cb", p), s >> :
      p \in { << Txt(2) >>, EmptyText }, s \in SubStates }
    \cup { << TextOf(k), << Txt(2) >> >> : k \in {"null", "num", "bad", "blank"} }

NoCall == [op |-> "none", state |-> << >>, result |-> Reject(""), t |-> 0]

\* every text that differs from the signature piece in flipped data bits,
\* in the padding bits of the last character, or in length
SigVariants(sig) ==
  { SigText(sig.d, flip, pad, len) :
      flip \in {0, 1}, pad \in {0, 1}, len \in {SigChars, SigChars + 1} } \ { sig }

ReplaceAt(text, i, piece) == [text EXCEPT ![i] = piece]

\* an issued token with its signature segment changed
SigTampered(tok) ==
  { ReplaceAt(tok.state, Len(tok.state), sig) : sig \in SigVariants(tok.state[Len(tok.state)]) }

\* an issued token with one of its signed fields changed
FieldTampered(tok) ==
  IF Len(tok.state) # 6 THEN {}
  ELSE { ReplaceAt(tok.state, 1, B64(JSONstringify("u2", "https://evil/cb", << Txt(2) >>))),
         ReplaceAt(tok.state, 2, Txt(3)),
         ReplaceAt(tok.state, 3, RandomNonce(0)),
         ReplaceAt(tok.state, 4, Txt(2)),
         ReplaceAt(tok.state, 4, NumText(tok.timestamp, 1)),
         ReplaceAt(tok.state, 5, Txt(2)),
         ReplaceAt(tok.state, 5, NumText(tok.timestamp + TTL, 1)),
         ReplaceAt(tok.state, 5, NumStr(tok.timestamp + 2 * TTL)) }

Malformed ==
  { EmptyText, BlankText, << Txt(2), Txt(3) >>,
    << Txt(2), Txt(2), Txt(2), NumStr(0), Txt(2), Txt(2) >>,
    << Txt(2), Txt(2), Txt(2), NumStr(0), NumStr(8 * TTL), Txt(2) >> }

VerifyInputs ==
  Malformed \cup { tok.state : tok \in issued }
    \cup UNION { SigTampered(tok) : tok \in issued }
    \cup UNION { FieldTampered(tok) : tok \in issued }

(***************************************************************************)
(* Requests, responses and URLs of the OAuth controllers                   *)
(***************************************************************************)
NoReq ==
  [handler |-> "none", userId |-> "", callbackUrl |-> "", subState |-> << >>,
   code |-> "", state |-> << >>, error |-> "", cookie |-> Txt(0), exch |-> "", t |-> 0]

Response(kind, status, url, success, error, igUser, token, state) ==
  [kind |-> kind, status |-> status, url |-> url, success |-> success, error |-> error,
   instagramUserId |-> igUser, accessToken |-> token, state |-> state]

\* the handler ended without writing a response (its promise rejected)
NoResponse == Response("none", 0, "", "", << >>, "", FALSE, << >>)

Json(status, error) == Response("json", status, "", "", error, "", FALSE, << >>)

Redirect(url, success, error, igUser, token) ==
  Response("redirect", 302, url, success, error, igUser, token, << >>)

\* new URL(u) returns for these and throws a TypeError for any other string
ValidUrl(u) == u \in {"https://x/cb", "https://evil/cb", "https://front/", "http://localhost:5173"}

OAuthIdle ==
  /\ env = ""
  /\ cookie = Txt(0)
  /\ req = NoReq
  /\ resp = NoResponse
  /\ exchanges = << >>
  /\ consumed = {}

(***************************************************************************)
(* Webhook requests                                                        *)
(***************************************************************************)
\* a JSON text: the value it parses to, and whether it is spelled the way
\* JSON.stringify spells that value ("compact") or with other whitespace
JsonText(content, form) == [content |-> content, form |-> form]

\* length of "sha256=" followed by the hex digits of a digest
HeaderLen == 7 + 2 * DigestBytes

\* the text "sha256=" + hex(HMAC(secret, text)), with flip > 0 when one hex
\* digit was changed, cut or extended to len characters
SigHeader(text, flip, len) == [present |-> TRUE, signed |-> text, flip |-> flip, len |-> len]

NoBody == [object |-> "", hasEntry |-> FALSE, entry |-> << >>]

NoHeader == [present |-> FALSE, signed |-> JsonText(NoBody, "compact"), flip |-> 0, len |-> 0]

NoWebhook == [header |-> NoHeader, raw |-> JsonText(NoBody, "compact"), body |-> NoBody]

\* what a call of verifyWebhookSignature ends in
Returns(value) == [outcome |-> "return", value |-> value]

Throws == [outcome |-> "throw", value |-> FALSE]

NotCalled == [outcome |-> "none", value |-> FALSE]

WebhookIdle ==
  /\ appSecret = "secret"
  /\ whReq = NoWebhook
  /\ whPc = "idle"
  /\ whAck = 0
  /\ whVerify = NotCalled
  /\ whTrail = << >>
  /\ whPos = 0
  /\ forwarded = << >>

(***************************************************************************)
(* GET /webhooks requests                                                  *)
(***************************************************************************)
\* the query of a GET /webhooks request; a parameter that is missing is
\* NoStr
HubQuery(handler, mode, token, challenge) ==
  [handler |-> handler, mode |-> mode, token |-> token, challenge |-> challenge]

NoHubQuery == HubQuery("none", NoStr, NoStr, NoStr)

\* res.status(status).send(body); send(undefined) sends an empty body
HubResponse(status, body) == [status |-> status, body |-> IF body = NoStr THEN "" ELSE body]

NoHubResponse == [status |-> 0, body |-> ""]

HubIdle ==
  /\ verifyToken = "tok"
  /\ hubReq = NoHubQuery
  /\ hubResp = NoHubResponse

(***************************************************************************)
(* Publish requests                                                        *)
(***************************************************************************)
\* a request: entry names the controller or service method called; params
\* tells whether the required body fields are there, url whether the media
\* URL parses; items is "none" when the field is missing, "other" when it
\* is not an array and "array" with n elements otherwise; maxAttempts is
\* the argument of a direct waitForContainerReady call
PublishRequest(entry, params, url, items, n, maxAttempts) ==
  [entry |-> entry, params |-> params, url |-> url, items |-> items, n |-> n,
   maxAttempts |-> maxAttempts]

NoPublishRequest == PublishRequest("none", FALSE, FALSE, "none", 0, 0)

\* how a request ended: kind is "http" for res.status(status).json(...),
\* "return" for a service call that returned and "throw" for one that
\* threw new Error(error); media is the id answered on success
PublishOutcome(kind, status, error, media) ==
  [kind |-> kind, status |-> status, error |-> error, media |-> media]

NoOutcome == PublishOutcome("none", 0, "", 0)

PublishIdle ==
  /\ pubReq = NoPublishRequest
  /\ pubPc = "idle"
  /\ pubCalls = << >>
  /\ pubIds = << >>
  /\ pubPolls = 0
  /\ pubOut = NoOutcome

\* one publishImage request among the concurrent ones: pc is "idle",
\* "limit" (awaiting checkPublishingLimit), "publish" (awaiting
\* publishSingleImage) or "done"; seen is the quota_usage its pre-check
\* read, -1 when it read none; status is the HTTP status it answered
Inflight(pc, seen, status) == [pc |-> pc, seen |-> seen, status |-> status]

\* a response of GET /rate-limit
RateReport(status, usage, total, remaining, reached) ==
  [status |-> status, quota_usage |-> usage, quota_total |-> total,
   quota_remaining |-> remaining, limit_reached |-> reached]

NoReport == RateReport(0, 0, 0, 0, FALSE)

QuotaIdle ==
  /\ quotaUsage = 0
  /\ inflight = << >>
  /\ rateReport = NoReport

CodecInit ==
  /\ OAuthIdle
  /\ WebhookIdle
  /\ HubIdle
  /\ PublishIdle
  /\ QuotaIdle
  /\ now = TickStep
  /\ ticks = 0
  /\ nonceCtr = 1
  /\ issued = {}
  /\ call = NoCall

\* the clock advances between calls; the value the last call returned has
\* been used by then
Tick ==
  /\ ticks < MaxTicks
  /\ now' = now + TickStep
  /\ ticks' = ticks + 1
  /\ call' = NoCall
  /\ UNCHANGED << nonceCtr, issued, oauthVars, webhookVars, hubVars, publishVars, quotaVars >>

CreateCall(payload, userState) ==
  /\ Cardinality(issued) < MaxIssued
  /\ IF createSecureStateThrows(payload)
     THEN /\ call' = [op |-> "create", state |-> << >>, result |-> Thrown, t |-> now]
          /\ UNCHANGED << nonceCtr, issued >>
     ELSE LET r == createSecureState(payload, userState, RandomNonce(nonceCtr), now)
          IN  /\ call' = [op |-> "create", state |-> r.state, result |-> Accept(NoData), t |-> now]
              /\ issued' = issued \cup { [state |-> r.state, nonce |-> r.nonce, payload |-> payload,
                                          userState |-> userState, timestamp |-> now] }
              /\ nonceCtr' = nonceCtr + 1
  /\ UNCHANGED << now, ticks, oauthVars, webhookVars, hubVars, publishVars, quotaVars >>

VerifyCall(state) ==
  /\ call' = [op |-> "verify", state |-> state, result |-> verifySecureState(state, now), t |-> now]
  /\ UNCHANGED << now, ticks, nonceCtr, issued, oauthVars, webhookVars, hubVars, publishVars, quotaVars >>

CodecNext ==
  \/ Tick
  \/ \E in \in CodecInputs : CreateCall(in[1], in[2])
  \/ \E state \in VerifyInputs : VerifyCall(state)

CodecSpec == CodecInit /\ [][CodecNext]_vars

(***************************************************************************)
(* Properties of the codec                                                 *)
(***************************************************************************)
ExpiresAt(tok) == tok.timestamp + TTL

\* the text splits into six fields and its sixth field spells the digest of
\* the first five as verifySecureState rebuilds them
SignatureValid(state) ==
  /\ Len(state) = 6
  /\ IsFinite(ToNumber(state[4]))
  /\ IsFinite(ToNumber(state[5]))
  /\ SigBuffer(state[6]) =
       SigBuffer(signPayload(<< state[1], state[2], state[3],
                                NumStr(ToNumber(state[4])), NumStr(ToNumber(state[5])) >>))

\* C1: verifying, before its expiry, the token that createSecureState(P, S)
\* returned for an object payload P and any sub-state S returns valid:true
\* with the userId and callbackUrl of P and the sub-state that was encoded.
C1_RoundTrip ==
  \A tok \in issued :
    (call.op = "verify" /\ call.state = tok.state /\ tok.payload.json = "obj"
       /\ call.t <= ExpiresAt(tok))
    => /\ call.result.outcome = "return"
       /\ call.result.valid
       /\ call.result.data.userId = tok.payload.userId
       /\ call.result.data.callbackUrl = tok.payload.callbackUrl
       /\ call.result.data.state \in { tok.userState, tok.payload.state }

\* C2: a text that differs from an issued token in its signature segment
\* only is rejected with the invalid-signature reason when it is verified
\* before the expiry of that token.
C2_SignatureChangeRejected ==
  \A tok \in issued :
    (call.op = "verify" /\ Len(tok.state) = 6 /\ Len(call.state) = 6
       /\ SubSeq(call.state, 1, 5) = SubSeq(tok.state, 1, 5)
       /\ call.state[6] # tok.state[6]
       /\ call.t <= ExpiresAt(tok))
    => /\ call.result.outcome = "return"
       /\ ~call.result.valid
       /\ call.result.reason = "firma non valida"

\* C3: no text is accepted when now > expiresAt, and a text whose signature
\* is valid is rejected with the expired reason once now > expiresAt.
C3_ExpiredRejected ==
  call.op = "verify" =>
    /\ (call.result.valid => call.t <= ToNumber(call.state[5]))
    /\ (SignatureValid(call.state) /\ call.t > ToNumber(call.state[5]))
         => call.result = Reject("state scaduto")

\* an issued token with a valid signature has been verified after its expiry
C3_Witness ==
  \E tok \in issued :
    /\ call.op = "verify"
    /\ call.state = tok.state
    /\ SignatureValid(call.state)
    /\ call.t > ExpiresAt(tok)
    /\ call.result.reason = "state scaduto"

\* C6: verifySecureState returns a structured result, and does not throw,
\* for every input string.
C6_NeverThrows ==
  call.op = "verify" => call.result.outcome = "return"

\* C20: a text that verifySecureState accepts has the five signed fields
\* (encoded payload, sub-state, nonce, issuedAt, expiresAt) of an issued
\* token, character for character: no change to the text of a signed field
\* leaves the token acceptable.
C20_SignedFieldsIntact ==
  (call.op = "verify" /\ call.result.outcome = "return" /\ call.result.valid)
    => \E tok \in issued :
         /\ Len(call.state) = Len(tok.state)
         /\ \A i \in 1..5 : call.state[i] = tok.state[i]

\* C21: verifySecureState reports a text as expired only when its
\* signature is valid: a text past its expiry whose signature is not valid
\* is rejected with the invalid-signature reason.
C21_ExpiryAfterSignature ==
  (call.op = "verify" /\ call.result.outcome = "return")
    => /\ call.result.reason = "state scaduto" => SignatureValid(call.state)
       /\ (/\ Len(call.state) = 6
           /\ IsFinite(ToNumber(call.state[4]))
           /\ IsFinite(ToNumber(call.state[5]))
           /\ call.t > ToNumber(call.state[5])
           /\ ~SignatureValid(call.state))
            => call.result = Reject("firma non valida")

(***************************************************************************)
(* startAuth and handleCallback                                            *)
(***************************************************************************)
AuthorizeUrl == "https://www.instagram.com/oauth/authorize"

\* a userId whose text is itself the JSON text of an object
UserIdObj == "{\"callbackUrl\":\"https://evil/cb\"}"

\* JSON.parse(str) on the string found in verification.data.userId
ParseStrThrows(str) == str \notin {"123", UserIdObj}

\* the member of JSON.parse(str); a number has no members
ParsedMember(str, name) ==
  IF str = UserIdObj /\ name = "callbackUrl" THEN "https://evil/cb" ELSE NoStr

\* process.env.IVOT_FRONTEND_URL || 'http://localhost:5173'
FrontendUrl(e) == IF e # "" THEN e ELSE "http://localhost:5173"

\* process.env.DEFAULT_CALLBACK_URL || '/'
DefaultCallbackUrl(e) == IF e # "" THEN e ELSE "/"

Outcome(response, exchanged, cleared) ==
  [resp |-> response, exchanged |-> exchanged, cleared |-> cleared]

\* the catch block: redirect to the default URL with success=false; new URL
\* on the default URL throws out of the handler when that URL does not parse
CatchRedirect(dflt, error) ==
  IF ValidUrl(dflt) THEN Redirect(dflt, "false", error, "", FALSE) ELSE NoResponse

\* startAuth: the response, and the token it issued (or none)
startAuth(r, nonce, t) ==
  IF r.userId = "" THEN [resp |-> Json(400, << "Missing required parameter: userId" >>), tok |-> {}]
  ELSE IF r.callbackUrl = "" THEN [resp |-> Json(400, << "Missing required parameter: callbackUrl" >>), tok |-> {}]
  ELSE
    LET state == IF Truthy(r.subState) THEN r.subState ELSE << Txt(2) >>
        payload == JSONstringify(r.userId, r.callbackUrl, state)
        created == createSecureState(payload, state, nonce, t)
    IN  [resp |-> Response("redirect", 302, AuthorizeUrl, "", << >>, "", FALSE, created.state),
         tok |-> { [state |-> created.state, nonce |-> created.nonce, payload |-> payload,
                    userState |-> state, timestamp |-> t] }]

\* a handler that calls the exchange as soon as a code is present
handleCallback_exchangeFirst(r, e, t) ==
  Outcome(CatchRedirect(FrontendUrl(e), << "exchange failed" >>), r.code # "", FALSE)

\* handleCallback; verifySecureState declares one parameter, so the stored
\* nonce passed as a second argument is dropped by the call
handleCallback(r, e, t) ==
  LET dflt == FrontendUrl(e)
      verification == verifySecureState(r.state, t)
  IN  IF r.error # "" THEN Outcome(CatchRedirect(dflt, << r.error >>), FALSE, FALSE)
      ELSE IF r.code = "" THEN Outcome(CatchRedirect(dflt, << "Authorization code missing" >>), FALSE, FALSE)
      ELSE IF ~Truthy(r.state) THEN Outcome(CatchRedirect(dflt, << "State parameter missing" >>), FALSE, FALSE)
      ELSE IF r.cookie = Txt(0) THEN Outcome(CatchRedirect(dflt, << "Nonce missing - possible CSRF attack" >>), FALSE, FALSE)
      ELSE IF verification.outcome = "throw" THEN Outcome(CatchRedirect(dflt, << "TypeError" >>), FALSE, FALSE)
      ELSE IF ~verification.valid
        THEN Outcome(CatchRedirect(dflt, << "CSRF verification failed: ", verification.reason >>), FALSE, FALSE)
      ELSE IF ParseStrThrows(verification.data.userId)
        THEN Outcome(CatchRedirect(dflt, << "SyntaxError" >>), FALSE, TRUE)
      ELSE IF r.exch # "ok" THEN Outcome(CatchRedirect(dflt, << "exchange failed" >>), TRUE, TRUE)
      ELSE
        LET callbackUrl == ParsedMember(verification.data.userId, "callbackUrl")
        IN  IF ValidUrl(callbackUrl)
            THEN Outcome(Redirect(callbackUrl, "true", << >>, "123", TRUE), TRUE, TRUE)
            ELSE IF ValidUrl(dflt)
            THEN Outcome(Redirect(dflt, "true", << >>, "123", TRUE), TRUE, TRUE)
            ELSE Outcome(NoResponse, TRUE, TRUE)

\* the revision of handleCallback that reads DEFAULT_CALLBACK_URL
handleCallbackV1(r, e, t) ==
  LET dflt == DefaultCallbackUrl(e)
      verification == verifySecureState(r.state, t)
      recovered ==
        IF r.cookie # Txt(0) /\ Truthy(r.state) /\ verification.outcome = "return"
             /\ verification.valid /\ ~ParseStrThrows(verification.data.userId)
        THEN ParsedMember(verification.data.userId, "callbackUrl")
        ELSE dflt
  IN  IF r.error # ""
        THEN IF ValidUrl(recovered)
             THEN Outcome(Redirect(recovered, "", << r.error >>, "", FALSE), FALSE, FALSE)
             ELSE Outcome(CatchRedirect(dflt, << "Invalid URL" >>), FALSE, FALSE)
      ELSE IF r.code = "" THEN Outcome(CatchRedirect(dflt, << "Authorization code missing" >>), FALSE, FALSE)
      ELSE IF ~Truthy(r.state) THEN Outcome(CatchRedirect(dflt, << "State parameter missing" >>), FALSE, FALSE)
      ELSE IF r.cookie = Txt(0) THEN Outcome(CatchRedirect(dflt, << "Nonce missing - possible CSRF attack" >>), FALSE, FALSE)
      ELSE IF verification.outcome = "throw" THEN Outcome(CatchRedirect(dflt, << "TypeError" >>), FALSE, FALSE)
      ELSE IF ~verification.valid
        THEN Outcome(CatchRedirect(dflt, << "CSRF verification failed: ", verification.reason >>), FALSE, FALSE)
      ELSE IF ParseStrThrows(verification.data.userId)
        THEN Outcome(CatchRedirect(dflt, << "SyntaxError" >>), FALSE, TRUE)
      ELSE IF r.exch # "ok" THEN Outcome(CatchRedirect(dflt, << "exchange failed" >>), TRUE, TRUE)
      ELSE
        LET callbackUrl == ParsedMember(verification.data.userId, "callbackUrl")
        IN  IF ValidUrl(callbackUrl)
            THEN Outcome(Redirect(callbackUrl, "true", << >>, "123", TRUE), TRUE, TRUE)
            ELSE Outcome(CatchRedirect(dflt, << "Invalid URL" >>), TRUE, TRUE)

(***************************************************************************)
(* The OAuth flow: one browser, the requests it sends, the clock           *)
(***************************************************************************)
MaxAuth == 2
MaxExchanges == 2
MaxWaits == 1

EnvUrls == {"", "https://front/", "front.example"}

\* the (userId, callbackUrl, state) query parameters of startAuth requests
AuthQueries ==
  { << "u1", "https://x/cb", << >> >>, << "123", "https://x/cb", << >> >>,
    << UserIdObj, "https://x/cb", << Txt(3) >> >>,
    << "", "https://x/cb", << >> >>, << "u1", "", << >> >> }

OAuthInit ==
  /\ now = TickStep
  /\ ticks = 0
  /\ nonceCtr = 1
  /\ issued = {}
  /\ call = NoCall
  /\ env \in EnvUrls
  /\ cookie = Txt(0)
  /\ req = NoReq
  /\ resp = NoResponse
  /\ exchanges = << >>
  /\ consumed = {}
  /\ WebhookIdle
  /\ HubIdle
  /\ PublishIdle
  /\ QuotaIdle

StartAuth(q) ==
  LET r == [NoReq EXCEPT !.handler = "startAuth", !.userId = q[1], !.callbackUrl = q[2],
                         !.subState = q[3], !.cookie = cookie, !.t = now]
      out == startAuth(r, RandomNonce(nonceCtr), now)
  IN  /\ Cardinality(issued) < MaxAuth
      \* the browser belongs to one user of the frontend
      /\ \A tok \in issued : q[1] \in {"", tok.payload.userId}
      /\ req' = r
      /\ resp' = out.resp
      /\ issued' = issued \cup out.tok
      /\ cookie' = IF out.tok = {} THEN cookie ELSE RandomNonce(nonceCtr)
      /\ nonceCtr' = IF out.tok = {} THEN nonceCtr ELSE nonceCtr + 1
      /\ UNCHANGED << now, ticks, call, env, exchanges, consumed, webhookVars, hubVars, publishVars, quotaVars >>

\* the callback requests the browser can send: the platform redirects back
\* with either an error or a code, and the request carries the cookie jar
CallbackRequests ==
  { [NoReq EXCEPT !.handler = h, !.code = q[1], !.error = q[2], !.exch = q[3], !.state = s,
                  !.cookie = cookie, !.t = now] :
      h \in {"handleCallback", "handleCallbackV1"},
      q \in { << "code", "", "ok" >>, << "code", "", "fail" >>, << "", "access_denied", "" >>,
              << "", "", "" >> },
      s \in { << >> } \cup { tok.state : tok \in issued } }

Serve(r, out) ==
  /\ Len(exchanges) < MaxExchanges
  /\ req' = r
  /\ resp' = out.resp
  /\ exchanges' = IF out.exchanged THEN Append(exchanges, r.state) ELSE exchanges
  /\ cookie' = IF out.cleared /\ out.resp.kind # "none" THEN Txt(0) ELSE cookie
  /\ consumed' = IF out.cleared /\ out.resp.kind # "none" THEN consumed \cup { r.state } ELSE consumed
  /\ UNCHANGED << now, ticks, nonceCtr, issued, call, env, webhookVars, hubVars, publishVars, quotaVars >>

HandleCallback ==
  \E r \in CallbackRequests :
    /\ r.handler = "handleCallback"
    /\ Serve(r, handleCallback(r, env, now))

HandleCallbackV1 ==
  \E r \in CallbackRequests :
    /\ r.handler = "handleCallbackV1"
    /\ Serve(r, handleCallbackV1(r, env, now))

\* the browser sits on the platform's consent page, the nonce cookie set, for
\* longer than the lifetime of a token
Wait ==
  /\ ticks < MaxWaits
  /\ cookie # Txt(0)
  /\ now' = now + TTL + TickStep
  /\ ticks' = ticks + 1
  /\ UNCHANGED << nonceCtr, issued, call, oauthVars, webhookVars, hubVars, publishVars, quotaVars >>

OAuthNext ==
  \/ Wait
  \/ \E q \in AuthQueries : StartAuth(q)
  \/ HandleCallback
  \/ HandleCallbackV1

OAuthSpec == OAuthInit /\ [][OAuthNext]_vars

(***************************************************************************)
(* Properties of the OAuth flow                                            *)
(***************************************************************************)
IsCallback(r) == r.handler \in {"handleCallback", "handleCallbackV1"}

\* C4: a callback that presents an otherwise valid, unexpired token together
\* with a nonce cookie that differs from the nonce embedded in the token is
\* rejected by the state verification and makes no token exchange.
C4_NonceMismatchRejected ==
  (IsCallback(req) /\ req.code # "" /\ req.error = "" /\ SignatureValid(req.state)
     /\ req.t <= ToNumber(req.state[5])
     /\ req.cookie # Txt(0) /\ req.cookie # req.state[3])
  => /\ Len(resp.error) = 2
     /\ resp.error[1] = "CSRF verification failed: "
     /\ ~resp.accessToken

\* C5: once a callback has verified a state token and cleared the
\* oauth_nonce cookie, no later callback presenting the same token leads to
\* a token exchange.
C5_AcceptedAtMostOnce ==
  [][(IsCallback(req') /\ req'.state \in consumed) => exchanges' = exchanges]_vars

\* C7: startAuth with userId=u1 and callbackUrl=C, then a callback carrying
\* the issued token, the matching nonce cookie, a code and a successful
\* exchange returning userId 123, ends in a redirect to C with success=true
\* and instagramUserId=123.
C7_EndToEnd ==
  \A tok \in issued :
    (IsCallback(req) /\ tok.payload.userId = "u1" /\ tok.payload.callbackUrl = "https://x/cb"
       /\ req.state = tok.state /\ req.cookie = tok.nonce /\ req.code # "" /\ req.error = ""
       /\ req.exch = "ok" /\ req.t <= ExpiresAt(tok))
    => /\ resp.kind = "redirect"
       /\ resp.url = "https://x/cb"
       /\ resp.success = "true"
       /\ resp.instagramUserId = "123"

\* C8: every handleCallback request ends in a redirect response.
C8_AlwaysRedirects ==
  IsCallback(req) => resp.kind = "redirect"

\* C28: the code-for-token exchange is called only by a callback that
\* carries no error parameter, carries a code, a state and the oauth_nonce
\* cookie, and whose state passed verifySecureState at the time of the
\* request; every other callback makes no exchange call.
C28_ExchangeOnlyAfterVerification ==
  [][exchanges' # exchanges =>
       /\ IsCallback(req')
       /\ exchanges' = Append(exchanges, req'.state)
       /\ req'.error = ""
       /\ req'.code # ""
       /\ Truthy(req'.state)
       /\ req'.cookie # Txt(0)
       /\ verifySecureState(req'.state, req'.t).outcome = "return"
       /\ verifySecureState(req'.state, req'.t).valid]_vars

\* a callback that reached the exchange and was answered with the token
C28_Witness ==
  /\ IsCallback(req)
  /\ exchanges # << >>
  /\ exchanges[Len(exchanges)] = req.state
  /\ resp.kind = "redirect"
  /\ resp.accessToken

\* C29: a redirect that carries the access token goes to the callbackUrl
\* that was given to the startAuth request which issued the presented state
\* token, and to no other URL.
C29_TokenOnlyToCallbackUrl ==
  (IsCallback(req) /\ resp.kind = "redirect" /\ resp.accessToken)
    => \E tok \in issued :
         /\ tok.state = req.state
         /\ resp.url = tok.payload.callbackUrl

(***************************************************************************)
(* verifyWebhookSignature                                                  *)
(***************************************************************************)
\* JSON.stringify(req.body)
JSONstringifyBody(body) == JsonText(body, "compact")

\* JSON.parse of the raw request body, done by the express.json middleware
JSONparseBody(raw) == raw.content

\* the body of the try block: createHmac throws a TypeError when the secret
\* is undefined, timingSafeEqual throws a RangeError when the two buffers
\* differ in length
compareSignature(body, signature, secret) ==
  IF secret = "" THEN Throws
  ELSE
    LET payload == JSONstringifyBody(body)
        expectedSignature == SigHeader(payload, 0, HeaderLen)
    IN  IF signature.len # expectedSignature.len THEN Throws
        ELSE Returns(signature = expectedSignature)

verifyWebhookSignature_anyHeader(body, signature, secret) == Returns(signature.present)

verifyWebhookSignature_noCatch(body, signature, secret) ==
  IF ~signature.present THEN Returns(FALSE)
  ELSE compareSignature(body, signature, secret)

\* false without a header, and false when the try block throws
verifyWebhookSignature(body, signature, secret) ==
  IF ~signature.present THEN Returns(FALSE)
  ELSE LET r == compareSignature(body, signature, secret)
       IN  IF r.outcome = "throw" THEN Returns(FALSE) ELSE r

(***************************************************************************)
(* processMessagingEvent, processChangeEvent and IvotNotifier              *)
(***************************************************************************)
\* msg.message: which of quick_reply, referral and reply_to.story it has,
\* the types of its attachments in order, and its is_echo flag
NoMessage ==
  [quick_reply |-> FALSE, referral |-> FALSE, story |-> FALSE, attachments |-> << >>,
   is_echo |-> FALSE]

\* an element of entry[i].messaging: sender is "" when msg.sender is
\* missing, has is the set of sub-fields present
Messaging(sender, recipient, has, message) ==
  [kind |-> "messaging", sender |-> sender, recipient |-> recipient, has |-> has,
   message |-> message, field |-> "", hasValue |-> FALSE]

\* an element of entry[i].changes
Change(field, hasValue) ==
  [kind |-> "change", sender |-> "", recipient |-> "", has |-> {}, message |-> NoMessage,
   field |-> field, hasValue |-> hasValue]

\* one axios.post to the downstream backend
Post(endpoint, type, account, conversation, messageType) ==
  [endpoint |-> endpoint, type |-> type, account |-> account, conversation |-> conversation,
   messageType |-> messageType, delivered |-> TRUE]

messageType_storyFirst(m) ==
  IF m.quick_reply THEN "quick_reply"
  ELSE IF m.story THEN "story_mention"
  ELSE IF m.referral THEN "referral"
  ELSE IF Len(m.attachments) > 0 /\ m.attachments[1] \in {"image", "video", "audio"}
    THEN m.attachments[1]
  ELSE IF Len(m.attachments) > 0 /\ m.attachments[1] = "like_heart" THEN "sticker"
  ELSE "text"

\* the type given to a received message
messageType(m) ==
  IF m.quick_reply THEN "quick_reply"
  ELSE IF m.referral THEN "referral"
  ELSE IF m.story THEN "story_mention"
  ELSE IF Len(m.attachments) > 0
    THEN LET attachmentType == m.attachments[1]
         IN  IF attachmentType \in {"image", "video", "audio"} THEN attachmentType
             ELSE IF attachmentType = "like_heart" THEN "sticker"
             ELSE "text"
  ELSE "text"

\* the sections of processMessagingEvent that run for msg, in code order
Sections(msg) ==
  SelectSeq(<< "message", "reaction", "read", "postback", "referral", "message_edit" >>,
            LAMBDA f : f \in msg.has /\ (f = "referral" => "message" \notin msg.has))

\* the post one section makes
SectionPost(accountId, msg, f) ==
  LET conv == << accountId, msg.sender >>
  IN  CASE f = "message" -> Post("messages", << "message" >>, accountId, conv, messageType(msg.message))
        [] f = "reaction" -> Post("messages", << "message_reaction" >>, accountId, conv, "reaction")
        [] f = "read" -> Post("events", << "message_seen" >>, accountId, << >>, "")
        [] f = "postback" -> Post("messages", << "postback" >>, accountId, conv, "postback")
        [] f = "referral" -> Post("events", << "referral" >>, accountId, << >>, "")
        [] f = "message_edit" -> Post("events", << "message_edit" >>, accountId, << >>, "")

\* every section reads msg.sender.id, which throws a TypeError when
\* msg.sender is missing, before the section posts anything
processMessagingEvent(accountId, msg) ==
  IF Sections(msg) = << >> THEN [posts |-> << >>, threw |-> FALSE]
  ELSE IF msg.sender = "" THEN [posts |-> << >>, threw |-> TRUE]
  ELSE [posts |-> [i \in 1..Len(Sections(msg)) |-> SectionPost(accountId, msg, Sections(msg)[i])],
        threw |-> FALSE]

processChangeEvent(accountId, change) ==
  CASE change.field \in {"comments", "live_comments"} ->
         IF ~change.hasValue THEN [posts |-> << >>, threw |-> TRUE]
         ELSE [posts |-> << Post("comments",
                                 << IF change.field = "live_comments" THEN "live_comment" ELSE "comment" >>,
                                 accountId, << >>, "") >>,
               threw |-> FALSE]
    [] change.field = "mentions" ->
         IF ~change.hasValue THEN [posts |-> << >>, threw |-> TRUE]
         ELSE [posts |-> << Post("events", << "mention" >>, accountId, << >>, "") >>, threw |-> FALSE]
    [] change.field = "story_insights" ->
         [posts |-> << Post("events", << "story_insights" >>, accountId, << >>, "") >>, threw |-> FALSE]
    [] OTHER ->
         [posts |-> << Post("events", << "unknown_", change.field >>, accountId, << >>, "") >>,
          threw |-> FALSE]

(***************************************************************************)
(* POST /webhooks                                                          *)
(***************************************************************************)
Item(id, messaging, changes) == [id |-> id, messaging |-> messaging, changes |-> changes]

\* the events of a batch in the order the two nested loops take them, each
\* with the id of its entry
RECURSIVE Units(_)
Units(entry) ==
  IF entry = << >> THEN << >>
  ELSE LET item == Head(entry)
           own == item.messaging \o item.changes
       IN  [i \in 1..Len(own) |-> << item.id, own[i] >>] \o Units(Tail(entry))

postWebhooks_verifyFirst(request, secret) ==
  LET verified == verifyWebhookSignature(request.body, request.header, secret)
      valid == verified.outcome = "return" /\ verified.value
  IN  [ack |-> IF valid THEN 200 ELSE 403,
       verified |-> verified,
       trail |-> << "verify", "ack" >>,
       pc |-> IF valid /\ request.body.hasEntry /\ Units(request.body.entry) # << >>
              THEN "loop" ELSE "done"]

\* the handler up to its first await: the acknowledgment, the verification
\* and the early returns; a throw of the verification is caught by the
\* handler's own catch, which ends the request
postWebhooks(request, secret) ==
  LET verified == verifyWebhookSignature(request.body, request.header, secret)
      valid == verified.outcome = "return" /\ verified.value
  IN  [ack |-> 200,
       verified |-> verified,
       trail |-> << "ack", "verify" >>,
       pc |-> IF valid /\ request.body.hasEntry /\ Units(request.body.entry) # << >>
              THEN "loop" ELSE "done"]

\* one turn of the loops: process*Event on the next event of the batch
processNext(request, pos) ==
  LET unit == Units(request.body.entry)[pos + 1]
  IN  IF unit[2].kind = "messaging" THEN processMessagingEvent(unit[1], unit[2])
      ELSE processChangeEvent(unit[1], unit[2])

(***************************************************************************)
(* The webhook receiver handling one request, the downstream backend up or *)
(* down at each post; the handler keeps nothing from one request to the    *)
(* next                                                                    *)
(***************************************************************************)
TextMessage == [NoMessage EXCEPT !.attachments = << "image" >>]

\* the attachment lists a received message can carry
AttachmentLists ==
  { << >>, << "image" >>, << "video", "image" >>, << "audio" >>,
    << "like_heart", "image" >>, << "file", "image" >> }

\* received messages with every combination of quick_reply, referral,
\* reply_to.story and attachments
Messages ==
  { [quick_reply |-> q, referral |-> r, story |-> st, attachments |-> a, is_echo |-> FALSE] :
      q \in BOOLEAN, r \in BOOLEAN, st \in BOOLEAN, a \in AttachmentLists }

\* the message the platform echoes when the account itself has sent one
EchoMessage == [NoMessage EXCEPT !.is_echo = TRUE]

\* a batch with one received message
MessageBody(m) ==
  [object |-> "instagram", hasEntry |-> TRUE,
   entry |-> << Item("acct1", << Messaging("user1", "acct1", {"message"}, m) >>, << >>) >>]

\* a batch with a message user1 sent to the account, the echo of the
\* account's reply to user1 and a reaction of user1
ConversationBody ==
  [object |-> "instagram", hasEntry |-> TRUE,
   entry |-> << Item("acct1", << Messaging("user1", "acct1", {"message"}, NoMessage),
                                 Messaging("acct1", "user1", {"message"}, EchoMessage),
                                 Messaging("user1", "acct1", {"reaction"}, NoMessage) >>, << >>) >>]

Bodies ==
  { MessageBody(m) : m \in Messages } \cup
  { NoBody, ConversationBody,
    [object |-> "instagram", hasEntry |-> TRUE, entry |-> << >>],
    [object |-> "instagram", hasEntry |-> TRUE,
     entry |-> << Item("acct1", << Messaging("user1", "acct1", {"message"}, TextMessage) >>,
                       << Change("comments", TRUE) >>) >>],
    [object |-> "instagram", hasEntry |-> TRUE,
     entry |-> << Item("acct1", << Messaging("", "acct1", {"message"}, NoMessage),
                                   Messaging("user1", "acct1", {"reaction", "read"}, NoMessage) >>, << >>) >>],
    [object |-> "instagram", hasEntry |-> TRUE,
     entry |-> << Item("acct1", << Messaging("user1", "acct1", {"message"}, NoMessage),
                                   Messaging("user2", "acct1", {"postback"}, NoMessage) >>, << >>) >>],
    [object |-> "instagram", hasEntry |-> TRUE,
     entry |-> << Item("acct1", << >>, << Change("feed", TRUE) >>),
                  Item("acct2", << >>, << Change("mentions", FALSE), Change("story_insights", TRUE) >>) >>] }

\* the headers a request for raw body raw can carry: none, the platform's
\* signature of the raw body, that signature with a digit changed or cut,
\* the platform's signature of the same JSON value spelled the way
\* JSON.stringify spells it, and the platform's signature of another body
Headers(raw) ==
  { NoHeader, SigHeader(raw, 0, HeaderLen), SigHeader(raw, 1, HeaderLen),
    SigHeader(raw, 0, HeaderLen - 1),
    SigHeader(JSONstringifyBody(JSONparseBody(raw)), 0, HeaderLen),
    SigHeader(JsonText([object |-> "instagram", hasEntry |-> TRUE, entry |-> << >>], "compact"),
              0, HeaderLen) }

WebhookRequests ==
  UNION { { [header |-> h, raw |-> JsonText(b, f), body |-> JSONparseBody(JsonText(b, f))] :
              h \in Headers(JsonText(b, f)) } : b \in Bodies, f \in {"compact", "spaced"} }

WebhookInit ==
  /\ now = TickStep
  /\ ticks = 0
  /\ nonceCtr = 1
  /\ issued = {}
  /\ call = NoCall
  /\ OAuthIdle
  /\ HubIdle
  /\ PublishIdle
  /\ QuotaIdle
  /\ appSecret \in {"secret", ""}
  /\ whReq = NoWebhook
  /\ whPc = "idle"
  /\ whAck = 0
  /\ whVerify = NotCalled
  /\ whTrail = << >>
  /\ whPos = 0
  /\ forwarded = << >>

PostWebhooks(request) ==
  LET out == postWebhooks(request, appSecret)
  IN  /\ whPc = "idle"
      /\ whReq' = request
      /\ whAck' = out.ack
      /\ whVerify' = out.verified
      /\ whTrail' = out.trail
      /\ whPc' = out.pc
      /\ whPos' = 0
      /\ forwarded' = << >>
      /\ UNCHANGED << now, ticks, nonceCtr, issued, call, oauthVars, hubVars, publishVars, appSecret, quotaVars >>

ProcessNext(up) ==
  LET out == processNext(whReq, whPos)
  IN  /\ whPc = "loop"
      /\ whTrail' = Append(whTrail, "process")
      /\ forwarded' = forwarded \o [i \in 1..Len(out.posts) |-> [out.posts[i] EXCEPT !.delivered = up]]
      /\ whPos' = whPos + 1
      /\ whPc' = IF out.threw \/ whPos + 1 = Len(Units(whReq.body.entry)) THEN "done" ELSE "loop"
      /\ UNCHANGED << now, ticks, nonceCtr, issued, call, oauthVars, hubVars, publishVars, appSecret, whReq, whAck,
                   whVerify, quotaVars >>

WebhookNext ==
  \/ \E request \in WebhookRequests : PostWebhooks(request)
  \/ \E up \in BOOLEAN : ProcessNext(up)

WebhookSpec == WebhookInit /\ [][WebhookNext]_vars

(***************************************************************************)
(* Properties of the webhook receiver                                      *)
(***************************************************************************)
\* C9: the 200 acknowledgment of a POST /webhooks request is the first thing
\* its handler does, before verification and processing, and it is 200
\* however the processing ends.
C9_AckFirst ==
  whPc # "idle" =>
    /\ whAck = 200
    /\ whTrail # << >>
    /\ whTrail[1] = "ack"
    /\ \A i \in 2..Len(whTrail) : whTrail[i] # "ack"

\* a request was acknowledged, verified and its processing ended by a throw
C9_Witness ==
  /\ whPc = "done"
  /\ whAck = 200
  /\ Len(whTrail) = 3
  /\ whPos = 1
  /\ Len(Units(whReq.body.entry)) = 2
  /\ forwarded = << >>

\* the header is the "sha256=" text of the digest, under a configured
\* secret, of the text the handler verifies
HeaderVerifies(request) ==
  /\ appSecret # ""
  /\ request.header.present
  /\ request.header.flip = 0
  /\ request.header.len = HeaderLen
  /\ request.header.signed = JsonText(request.body, "compact")

\* C10: a request whose signature header is missing or does not verify has
\* nothing forwarded downstream and is still answered 200; posts are made
\* only for requests whose header verified.
C10_UnverifiedNotForwarded ==
  whPc # "idle" =>
    /\ (~HeaderVerifies(whReq) => (forwarded = << >> /\ whPc = "done" /\ whAck = 200))
    /\ (forwarded # << >> => HeaderVerifies(whReq))

\* a request with events and a tampered header has been handled
C10_Witness ==
  /\ whPc = "done"
  /\ whReq.header.present
  /\ whReq.header.flip = 1
  /\ Units(whReq.body.entry) # << >>
  /\ forwarded = << >>
  /\ whAck = 200

\* the header is the well-formed "sha256=" text of a digest under the
\* configured secret
HeaderWellFormed(request) ==
  /\ appSecret # ""
  /\ request.header.present
  /\ request.header.flip = 0
  /\ request.header.len = HeaderLen

\* C11: for a header that is the digest of some body text under the secret,
\* verifyWebhookSignature returns true exactly when that text is the raw
\* body received: true for the digest of the raw bytes whatever their
\* whitespace, false when the raw body differs from the text the header
\* was computed over.
C11_RawBodySignature ==
  (whPc # "idle" /\ HeaderWellFormed(whReq))
    => /\ whVerify.outcome = "return"
       /\ whVerify.value <=> (whReq.header.signed = whReq.raw)

C13_BatchContinues ==
  (whPc = "done" /\ whVerify = Returns(TRUE) /\ whReq.body.hasEntry)
    => whPos = Len(Units(whReq.body.entry))

\* the batch of the request is one received message
OneMessage(request) ==
  /\ request.body.hasEntry
  /\ Len(Units(request.body.entry)) = 1
  /\ Units(request.body.entry)[1][2].kind = "messaging"
  /\ Units(request.body.entry)[1][2].has = {"message"}

\* C14: the type forwarded for a received message is the first that
\* applies of: quick_reply when it has a quick reply; referral when it has
\* a referral; story_mention when it replies to a story; the type of its
\* first attachment when that is image, video or audio, and sticker when
\* that is like_heart; text otherwise.
C14_TypePrecedence ==
  (whPc = "done" /\ OneMessage(whReq) /\ forwarded # << >>)
    => LET m == Units(whReq.body.entry)[1][2].message
           type == forwarded[1].messageType
           first == IF m.attachments = << >> THEN "" ELSE Head(m.attachments)
           earlier == m.quick_reply \/ m.referral \/ m.story
       IN  /\ Len(forwarded) = 1
           /\ m.quick_reply => type = "quick_reply"
           /\ (~m.quick_reply /\ m.referral) => type = "referral"
           /\ (~m.quick_reply /\ ~m.referral /\ m.story) => type = "story_mention"
           /\ (~earlier /\ first \in {"image", "video", "audio"}) => type = first
           /\ (~earlier /\ first = "like_heart") => type = "sticker"
           /\ (~earlier /\ first \notin {"image", "video", "audio", "like_heart"}) => type = "text"

\* a message with a referral, a story reply and attachments, but no quick
\* reply, has been forwarded as a referral
C14_Witness ==
  /\ whPc = "done"
  /\ OneMessage(whReq)
  /\ Len(forwarded) = 1
  /\ LET m == Units(whReq.body.entry)[1][2].message
     IN  ~m.quick_reply /\ m.referral /\ m.story /\ Len(m.attachments) = 2
  /\ forwarded[1].messageType = "referral"

\* the other party of a messaging event: the recipient of what the account
\* sent, the sender of what it received
Counterpart(accountId, msg) == IF msg.sender = accountId THEN msg.recipient ELSE msg.sender

\* C15: when every event of a handled batch is between the same account
\* and the same counterpart, in either direction, all the posts that carry
\* a conversation_id carry the same one.
C15_OneConversation ==
  (whPc = "done" /\ whReq.body.hasEntry
     /\ \A i, j \in 1..Len(Units(whReq.body.entry)) :
          LET u == Units(whReq.body.entry)[i]
              v == Units(whReq.body.entry)[j]
          IN  /\ u[2].kind = "messaging"
              /\ u[2].sender # ""
              /\ u[1] = v[1]
              /\ Counterpart(u[1], u[2]) = Counterpart(v[1], v[2]))
    => \A i, j \in 1..Len(forwarded) :
         (forwarded[i].conversation # << >> /\ forwarded[j].conversation # << >>)
           => forwarded[i].conversation = forwarded[j].conversation

getWebhooks(query, token) ==
  IF query.mode = "subscribe" /\ query.token = token
  THEN HubResponse(200, query.challenge)
  ELSE HubResponse(403, "Forbidden")

\* the handler of controllers/instagramController.ts
getWebhooksV1(query, token) ==
  IF query.token = token
  THEN HubResponse(200, query.challenge)
  ELSE HubResponse(403, "Token non valido")

HubQueries ==
  { HubQuery(h, m, t, c) :
      h \in {"getWebhooks", "getWebhooksV1"}, m \in {NoStr, "subscribe", "unsubscribe"},
      t \in {NoStr, "tok", "wrong"}, c \in {NoStr, "c1", "c2"} }

HubInit ==
  /\ now = TickStep
  /\ ticks = 0
  /\ nonceCtr = 1
  /\ issued = {}
  /\ call = NoCall
  /\ OAuthIdle
  /\ WebhookIdle
  /\ PublishIdle
  /\ QuotaIdle
  /\ verifyToken \in {NoStr, "tok"}
  /\ hubReq = NoHubQuery
  /\ hubResp = NoHubResponse

GetWebhooks(query) ==
  /\ query.handler = "getWebhooks"
  /\ hubReq' = query
  /\ hubResp' = getWebhooks(query, verifyToken)
  /\ UNCHANGED << now, ticks, nonceCtr, issued, call, oauthVars, webhookVars, publishVars,
               verifyToken, quotaVars >>

GetWebhooksV1(query) ==
  /\ query.handler = "getWebhooksV1"
  /\ hubReq' = query
  /\ hubResp' = getWebhooksV1(query, verifyToken)
  /\ UNCHANGED << now, ticks, nonceCtr, issued, call, oauthVars, webhookVars, publishVars,
               verifyToken, quotaVars >>

HubNext ==
  \/ \E query \in HubQueries : GetWebhooks(query)
  \/ \E query \in HubQueries : GetWebhooksV1(query)

HubSpec == HubInit /\ [][HubNext]_vars

\* C19: GET /webhooks answers 200 with hub.challenge as its body when
\* hub.verify_token equals the configured verify token, and 403 in every
\* other case, a wrong or a missing token included.
C19_ChallengeEcho ==
  hubReq.handler # "none" =>
    IF verifyToken # NoStr /\ hubReq.token = verifyToken
    THEN hubResp = HubResponse(200, hubReq.challenge)
    ELSE hubResp.status = 403

(***************************************************************************)
(* InstagramService: containers, polling and publishing                    *)
(***************************************************************************)
\* bounds: the longest items array of a request and the largest
\* maxAttempts of a direct waitForContainerReady call
MaxItems == 11
MaxAttempts == 3

\* the default maxAttempts of waitForContainerReady and the one publishVideo
\* passes
DefaultAttempts == 10
VideoAttempts == 30

\* the ways a platform call fails: an HTTP status of the Graph API, or no
\* response at all
HttpErrors == {"400", "401", "403", "429", "500", "network"}

\* one platform call as the transport saw it: op is "limit", "create",
\* "status" or "publish"; what is the media type of a creation; container
\* is the container the call is about (for a creation, the id it returned,
\* 0 when it returned none); item is the index in the items array of the
\* item a carousel child is created for, children the ids a carousel
\* container is created with
PlatformCall(op, what, container, result) ==
  [op |-> op, what |-> what, container |-> container, result |-> result,
   item |-> 0, children |-> << >>]

\* the message of the Error that reaches the caller when an axios call
\* failed with this result: handleInstagramError throws its own message
\* for the statuses it knows and the original error is rethrown otherwise
handleInstagramError(result) ==
  CASE result = "400" -> "Parametri richiesta non validi"
    [] result = "401" -> "Access token non valido o scaduto"
    [] result = "403" -> "Permessi insufficienti per questa operazione"
    [] result = "429" -> "Rate limit superato, riprova piu tardi"
    [] result = "500" -> "Errore interno di Instagram, riprova piu tardi"
    [] OTHER -> "Network Error"

\* one turn of the loop of waitForContainerReady, after the status call of
\* turn i (counted from 0) ended in status: the call returns, throws, or
\* sleeps and goes to turn i + 1, throwing the timeout when the loop ends
waitForContainerReady_oneMore(status, i, maxAttempts) ==
  CASE status = "FINISHED" -> [next |-> "return", error |-> ""]
    [] status = "ERROR" -> [next |-> "throw", error |-> "Container error"]
    [] status = "EXPIRED" -> [next |-> "throw", error |-> "Container scaduto"]
    [] status \in HttpErrors -> [next |-> "throw", error |-> handleInstagramError(status)]
    [] OTHER -> IF i + 1 <= maxAttempts THEN [next |-> "again", error |-> ""]
                ELSE [next |-> "throw", error |-> "Timeout"]

\* a wait that takes a container in ERROR for a ready one
waitForContainerReady_errorReady(status, i, maxAttempts) ==
  CASE status \in {"FINISHED", "ERROR"} -> [next |-> "return", error |-> ""]
    [] status = "EXPIRED" -> [next |-> "throw", error |-> "Container scaduto"]
    [] status \in HttpErrors -> [next |-> "throw", error |-> handleInstagramError(status)]
    [] OTHER -> IF i + 1 < maxAttempts THEN [next |-> "again", error |-> ""]
                ELSE [next |-> "throw", error |-> "Timeout"]

\* a wait whose timeout comes two turns late
waitForContainerReady_lateTimeout(status, i, maxAttempts) ==
  CASE status = "FINISHED" -> [next |-> "return", error |-> ""]
    [] status = "ERROR" -> [next |-> "throw", error |-> "Container error"]
    [] status = "EXPIRED" -> [next |-> "throw", error |-> "Container scaduto"]
    [] status \in HttpErrors -> [next |-> "throw", error |-> handleInstagramError(status)]
    [] OTHER -> IF i < maxAttempts + 1 THEN [next |-> "again", error |-> ""]
                ELSE [next |-> "throw", error |-> "Timeout"]

waitForContainerReady(status, i, maxAttempts) ==
  CASE status = "FINISHED" -> [next |-> "return", error |-> ""]
    [] status = "ERROR" -> [next |-> "throw", error |-> "Container error"]
    [] status = "EXPIRED" -> [next |-> "throw", error |-> "Container scaduto"]
    [] status \in HttpErrors -> [next |-> "throw", error |-> handleInstagramError(status)]
    [] OTHER -> IF i + 1 < maxAttempts THEN [next |-> "again", error |-> ""]
                ELSE [next |-> "throw", error |-> "Timeout"]

\* the maxAttempts a request's wait runs with
AttemptsOf(request) ==
  CASE request.entry = "waitForContainerReady" -> request.maxAttempts
    [] request.entry = "publishVideo" -> VideoAttempts
    [] OTHER -> DefaultAttempts

\* whether the request came through a controller, which answers over HTTP
IsController(request) == request.entry \in {"publishImage", "publishVideo", "publishCarousel"}

IsCarousel(request) == request.entry \in {"publishCarousel", "service.publishCarousel"}

\* the check at the head of InstagramService.publishCarousel
publishCarouselRejects_none(n) == FALSE

publishCarouselRejects(n) == n < 2 \/ n > 10

\* a controller's validation of the request body: the 400 it answers, or
\* NoOutcome when the body passes
validate(request) ==
  CASE request.entry \in {"publishImage", "publishVideo"} ->
         IF ~request.params THEN PublishOutcome("http", 400, "Parametri mancanti", 0)
         ELSE IF ~request.url THEN PublishOutcome("http", 400, "URL non valido", 0)
         ELSE NoOutcome
    [] request.entry = "publishCarousel" ->
         IF ~request.params \/ request.items = "none"
         THEN PublishOutcome("http", 400, "Parametri mancanti", 0)
         ELSE IF request.items # "array" \/ request.n < 2 \/ request.n > 10
         THEN PublishOutcome("http", 400, "items non valido", 0)
         ELSE NoOutcome
    [] OTHER -> NoOutcome

\* how a request ends when the service throws new Error(message): the
\* controllers' catch answers 500 with the message, a direct call throws
failure(request, message) ==
  IF IsController(request) THEN PublishOutcome("http", 500, message, 0)
  ELSE PublishOutcome("throw", 0, message, 0)

\* how a request ends when the service returns
success(request, media) ==
  IF IsController(request) THEN PublishOutcome("http", 200, "", media)
  ELSE PublishOutcome("return", 0, "", media)

(***************************************************************************)
(* A publish request, or a direct call of the service, step by step: each  *)
(* platform call is one step and ends the way the platform decides         *)
(***************************************************************************)
PublishRequests ==
  { PublishRequest(e, pa, u, "none", 0, 0) :
      e \in {"publishImage", "publishVideo"}, pa \in BOOLEAN, u \in BOOLEAN }
    \cup { PublishRequest("publishCarousel", pa, TRUE, "array", n, 0) :
              pa \in BOOLEAN, n \in 0..MaxItems }
    \cup { PublishRequest("publishCarousel", TRUE, TRUE, it, 0, 0) : it \in {"none", "other"} }
    \cup { PublishRequest("service.publishCarousel", TRUE, TRUE, "array", n, 0) : n \in 0..MaxItems }
    \cup { PublishRequest("waitForContainerReady", TRUE, TRUE, "none", 0, m) : m \in 0..MaxAttempts }

\* what a status call can answer: the status codes the service tells
\* apart, a failure of the call and, for a direct call of the wait, a
\* status code the service does not know
Statuses(request) ==
  {"IN_PROGRESS", "FINISHED", "ERROR", "EXPIRED"} \cup HttpErrors
    \cup (IF request.entry = "waitForContainerReady" THEN {"PUBLISHED"} ELSE {})

PublishInit ==
  /\ now = TickStep
  /\ ticks = 0
  /\ nonceCtr = 1
  /\ issued = {}
  /\ call = NoCall
  /\ OAuthIdle
  /\ WebhookIdle
  /\ HubIdle
  /\ PublishIdle
  /\ QuotaIdle

Ended(out) ==
  /\ pubOut' = out
  /\ pubPc' = "done"

\* the controller's validation, the check at the head of publishCarousel
\* and the first step the request goes to
StartPublish(request) ==
  /\ pubPc = "idle"
  /\ pubReq' = request
  /\ pubCalls' = << >>
  /\ pubPolls' = 0
  /\ pubIds' = IF request.entry = "waitForContainerReady" THEN << 1 >> ELSE << >>
  /\ IF validate(request) # NoOutcome THEN Ended(validate(request))
     ELSE IF IsCarousel(request) /\ publishCarouselRejects(request.n)
       THEN Ended(failure(request, "Carousel deve contenere tra 2 e 10 items"))
     ELSE IF request.entry = "waitForContainerReady" /\ request.maxAttempts <= 0
       THEN Ended(failure(request, "Timeout"))
     ELSE /\ pubOut' = NoOutcome
          /\ pubPc' = CASE request.entry \in {"publishImage", "publishVideo"} -> "limit"
                         [] request.entry = "waitForContainerReady" -> "wait"
                         [] OTHER -> "create"
  /\ UNCHANGED << now, ticks, nonceCtr, issued, call, oauthVars, webhookVars, hubVars, quotaVars >>

\* checkPublishingLimit in publishImage and publishVideo: 429 when the
\* quota is used up; a failure of the call is logged and ignored
CheckLimit(result) ==
  /\ pubPc = "limit"
  /\ pubCalls' = Append(pubCalls, PlatformCall("limit", "", 0, result))
  /\ IF result = "reached"
     THEN Ended(PublishOutcome("http", 429, "Rate limit raggiunto", 0))
     ELSE pubPc' = "create" /\ pubOut' = pubOut
  /\ UNCHANGED << now, ticks, nonceCtr, issued, call, oauthVars, webhookVars, hubVars,
                  pubReq, pubIds, pubPolls, quotaVars >>

\* a carousel whose parent is created while one item is still to come
NextCreation_parentEarly(request, ids) ==
  CASE IsCarousel(request) -> IF Len(ids) < request.n - 1 THEN "CAROUSEL_ITEM" ELSE "CAROUSEL"
    [] request.entry = "publishVideo" -> "VIDEO"
    [] OTHER -> "IMAGE"

\* the media type of the container created next: publishCarousel creates
\* one child per item, in the order of the items, then the parent
NextCreation(request, ids) ==
  CASE IsCarousel(request) -> IF Len(ids) < request.n THEN "CAROUSEL_ITEM" ELSE "CAROUSEL"
    [] request.entry = "publishVideo" -> "VIDEO"
    [] OTHER -> "IMAGE"

\* createMediaContainer: a child of the carousel, or the container that is
\* then waited for
Create(result) ==
  LET what == NextCreation(pubReq, pubIds)
      id == IF result = "ok" THEN Len(pubIds) + 1 ELSE 0
  IN  /\ pubPc = "create"
      /\ pubCalls' = Append(pubCalls,
                           [PlatformCall("create", what, id, result) EXCEPT
                              !.item = IF what = "CAROUSEL_ITEM" THEN Len(pubIds) + 1 ELSE 0,
                              !.children = IF what = "CAROUSEL" THEN pubIds ELSE << >>])
      /\ IF result = "ok"
         THEN /\ pubIds' = Append(pubIds, id)
              /\ pubPc' = IF what = "CAROUSEL_ITEM" THEN "create" ELSE "wait"
              /\ pubOut' = pubOut
         ELSE /\ pubIds' = pubIds
              /\ Ended(failure(pubReq, IF result = "noid"
                                        THEN "Container ID non ricevuto da Instagram"
                                        ELSE handleInstagramError(result)))
      /\ UNCHANGED << now, ticks, nonceCtr, issued, call, oauthVars, webhookVars, hubVars,
                      pubReq, pubPolls, quotaVars >>

\* one turn of waitForContainerReady: checkContainerStatus and what follows
Poll(status) ==
  LET container == pubIds[Len(pubIds)]
      turn == waitForContainerReady(status, pubPolls, AttemptsOf(pubReq))
  IN  /\ pubPc = "wait"
      /\ pubCalls' = Append(pubCalls, PlatformCall("status", "", container, status))
      /\ CASE turn.next = "return" ->
                /\ pubPolls' = pubPolls
                /\ IF pubReq.entry = "waitForContainerReady"
                   THEN Ended(success(pubReq, 0))
                   ELSE pubPc' = "publish" /\ pubOut' = pubOut
           [] turn.next = "throw" ->
                /\ pubPolls' = pubPolls
                /\ Ended(failure(pubReq, turn.error))
           [] OTHER ->
                /\ pubPolls' = pubPolls + 1
                /\ UNCHANGED << pubPc, pubOut >>
      /\ UNCHANGED << now, ticks, nonceCtr, issued, call, oauthVars, webhookVars, hubVars,
                      pubReq, pubIds, quotaVars >>

\* publishMedia
Publish(result) ==
  LET container == pubIds[Len(pubIds)]
  IN  /\ pubPc = "publish"
      /\ pubCalls' = Append(pubCalls, PlatformCall("publish", "", container, result))
      /\ Ended(CASE result = "ok" -> success(pubReq, 100 + container)
                  [] result = "noid" -> failure(pubReq, "Media ID non ricevuto dopo pubblicazione")
                  [] OTHER -> failure(pubReq, handleInstagramError(result)))
      /\ UNCHANGED << now, ticks, nonceCtr, issued, call, oauthVars, webhookVars, hubVars,
                      pubReq, pubIds, pubPolls, quotaVars >>

PublishNext ==
  \/ \E request \in PublishRequests : StartPublish(request)
  \/ \E result \in {"under", "reached"} \cup HttpErrors : CheckLimit(result)
  \/ \E result \in {"ok", "noid"} \cup HttpErrors : Create(result)
  \/ \E status \in Statuses(pubReq) : Poll(status)
  \/ \E result \in {"ok", "noid"} \cup HttpErrors : Publish(result)

PublishSpec == PublishInit /\ [][PublishNext]_vars

\* a platform call that has been made returns: the await it is behind
\* resumes, with a result or with an error
PlatformReturns ==
  \/ \E result \in {"under", "reached"} \cup HttpErrors : CheckLimit(result)
  \/ \E result \in {"ok", "noid"} \cup HttpErrors : Create(result)
  \/ \E status \in Statuses(pubReq) : Poll(status)
  \/ \E result \in {"ok", "noid"} \cup HttpErrors : Publish(result)

\* the publish workflows under the assumption that every platform call
\* eventually returns
PublishFairSpec == PublishSpec /\ WF_vars(PlatformReturns)

(***************************************************************************)
(* Properties of the publish workflows                                     *)
(***************************************************************************)
\* the answers of the status calls made so far, in order
StatusSeen ==
  LET calls == SelectSeq(pubCalls, LAMBDA c : c.op = "status")
  IN  [i \in 1..Len(calls) |-> calls[i].result]

\* every status before position k was IN_PROGRESS
InProgressBefore(seen, k) == \A i \in 1..(k - 1) : seen[i] = "IN_PROGRESS"

\* C16: a call waitForContainerReady(container, maxAttempts) makes at most
\* maxAttempts status calls; when the first status other than IN_PROGRESS
\* is FINISHED, at position k, it returns after exactly k status calls;
\* when it is ERROR or EXPIRED it throws a container error after exactly k
\* calls; when all statuses were IN_PROGRESS it throws the timeout after
\* exactly maxAttempts calls.
C16_PollUntilReady ==
  pubReq.entry = "waitForContainerReady" =>
    LET seen == StatusSeen
        m == pubReq.maxAttempts
    IN  /\ Len(seen) <= m
        /\ \A k \in 1..Len(seen) :
             /\ (seen[k] = "FINISHED" /\ InProgressBefore(seen, k))
                  => pubPc = "done" /\ pubOut.kind = "return" /\ Len(seen) = k
             /\ (seen[k] \in {"ERROR", "EXPIRED"} /\ InProgressBefore(seen, k))
                  => /\ pubPc = "done" /\ pubOut.kind = "throw" /\ Len(seen) = k
                     /\ pubOut.error \in {"Container error", "Container scaduto"}
        /\ (pubPc = "done" /\ InProgressBefore(seen, Len(seen) + 1))
             => pubOut.kind = "throw" /\ pubOut.error = "Timeout" /\ Len(seen) = m
        /\ (pubPc # "done" /\ InProgressBefore(seen, Len(seen) + 1)) => Len(seen) < m

\* a wait with maxAttempts 3 has returned on IN_PROGRESS, IN_PROGRESS,
\* FINISHED
C16_Witness ==
  /\ pubReq.entry = "waitForContainerReady"
  /\ pubReq.maxAttempts = 3
  /\ pubPc = "done"
  /\ StatusSeen = << "IN_PROGRESS", "IN_PROGRESS", "FINISHED" >>
  /\ pubOut.kind = "return"

\* C17: a publishCarousel request or call with fewer than 2 or more than
\* 10 items ends at once in an invalid-argument failure, a 400 from the
\* controller or the error thrown by the service, and no platform call is
\* made for it.
C17_CarouselBounds ==
  (pubPc # "idle" /\ IsCarousel(pubReq) /\ pubReq.items = "array"
     /\ (pubReq.n < 2 \/ pubReq.n > 10))
    => /\ pubPc = "done"
       /\ pubCalls = << >>
       /\ \/ pubOut.kind = "http" /\ pubOut.status = 400
          \/ pubOut.kind = "throw" /\ pubOut.error = "Carousel deve contenere tra 2 e 10 items"

\* the service's publishCarousel has been called with 11 items and has
\* thrown
C17_Witness ==
  /\ pubReq.entry = "service.publishCarousel"
  /\ pubReq.n = 11
  /\ pubPc = "done"
  /\ pubOut.kind = "throw"
  /\ pubCalls = << >>

\* C18: a publish request during which a platform call failed with 401,
\* 403 or 429 is answered with that same status.
C18_UpstreamStatusMapped ==
  (pubPc = "done" /\ IsController(pubReq))
    => \A i \in 1..Len(pubCalls) :
         pubCalls[i].result \in {"401", "403", "429"}
           => /\ pubOut.kind = "http"
              /\ pubOut.status = (CASE pubCalls[i].result = "401" -> 401
                                     [] pubCalls[i].result = "403" -> 403
                                     [] OTHER -> 429)

\* C22: the parent container of a carousel is created only after a status
\* call has answered FINISHED for each of the children it is created with.
C22_ChildrenFinishedBeforeParent ==
  \A k \in 1..Len(pubCalls) :
    (pubCalls[k].op = "create" /\ pubCalls[k].what = "CAROUSEL")
      => \A c \in 1..Len(pubCalls[k].children) :
           \E j \in 1..(k - 1) :
             /\ pubCalls[j].op = "status"
             /\ pubCalls[j].container = pubCalls[k].children[c]
             /\ pubCalls[j].result = "FINISHED"

\* C23: the platform calls of a publishCarousel of n items are, in this
\* order: one child creation for each item, in the order of the items; one
\* parent creation, made with the ids of all n children in that order;
\* status calls on the parent; one publish call on the parent, after the
\* status FINISHED. A failed child creation is the last call of the
\* request: no parent is created and nothing is published.
C23_CarouselOrder ==
  (IsCarousel(pubReq) /\ pubPc # "idle") =>
    LET n == pubReq.n
        L == Len(pubCalls)
    IN  \A i \in 1..L :
          /\ i <= n =>
                /\ pubCalls[i].op = "create"
                /\ pubCalls[i].what = "CAROUSEL_ITEM"
                /\ pubCalls[i].item = i
                /\ pubCalls[i].result # "ok"
                     => i = L /\ pubPc = "done" /\ pubOut.media = 0
          /\ i = n + 1 =>
                /\ pubCalls[i].op = "create"
                /\ pubCalls[i].what = "CAROUSEL"
                /\ pubCalls[i].children = [j \in 1..n |-> pubCalls[j].container]
                /\ \A j \in 1..n : pubCalls[j].result = "ok"
          /\ i > n + 1 =>
                /\ pubCalls[n + 1].result = "ok"
                /\ pubCalls[i].container = pubCalls[n + 1].container
                /\ pubCalls[i].op \in {"status", "publish"}
                /\ pubCalls[i].op = "publish"
                     => /\ i = L
                        /\ \A j \in (n + 2)..(i - 1) : pubCalls[j].op = "status"
                        /\ pubCalls[i - 1].op = "status"
                        /\ pubCalls[i - 1].result = "FINISHED"

\* a carousel of three items has been published: three children, the
\* parent, two status calls, the publish call
C23_Witness ==
  /\ pubReq.entry = "publishCarousel"
  /\ pubReq.n = 3
  /\ pubPc = "done"
  /\ pubOut.status = 200
  /\ Len(pubCalls) = 7
  /\ pubCalls[4].children = << 1, 2, 3 >>
  /\ pubCalls[5].result = "IN_PROGRESS"
  /\ pubCalls[7].op = "publish"

\* C24: in every workflow a publish call is made for a container only
\* after a status call answered FINISHED for that container, it is the last
\* platform call of the request, and there is at most one; a request in
\* which a status call answered ERROR or EXPIRED, the wait timed out or a
\* creation failed makes no publish call.
C24_PublishAfterFinished ==
  LET L == Len(pubCalls)
      published == \E i \in 1..L : pubCalls[i].op = "publish"
  IN  /\ \A i \in 1..L :
            pubCalls[i].op = "publish" =>
              /\ i = L
              /\ \E j \in 1..(i - 1) :
                   /\ pubCalls[j].op = "status"
                   /\ pubCalls[j].container = pubCalls[i].container
                   /\ pubCalls[j].result = "FINISHED"
              /\ \E j \in 1..(i - 1) :
                   /\ pubCalls[j].op = "create"
                   /\ pubCalls[j].what # "CAROUSEL_ITEM"
                   /\ pubCalls[j].result = "ok"
                   /\ pubCalls[j].container = pubCalls[i].container
      /\ (\E i \in 1..L : /\ pubCalls[i].op = "status"
                           /\ pubCalls[i].result \in {"ERROR", "EXPIRED"}) => ~published
      /\ (\E i \in 1..L : pubCalls[i].op = "create" /\ pubCalls[i].result # "ok") => ~published
      /\ (pubPc = "done" /\ pubOut.error = "Timeout") => ~published

\* a video has been published after IN_PROGRESS, FINISHED
C24_Witness ==
  /\ pubReq.entry = "publishVideo"
  /\ pubPc = "done"
  /\ pubOut.status = 200
  /\ pubOut.media # 0
  /\ StatusSeen = << "IN_PROGRESS", "FINISHED" >>
  /\ pubCalls[Len(pubCalls)].op = "publish"

\* the messages of the errors that come from a platform call
UpstreamErrors ==
  { handleInstagramError(result) : result \in HttpErrors }
    \cup {"Container ID non ricevuto da Instagram", "Media ID non ricevuto dopo pubblicazione"}

\* the ways a publish workflow ends that hold of the outcome
EndingsOf(out, calls, request) ==
  { e \in {"success", "container failure", "timeout", "upstream error"} :
      CASE e = "success" -> out.error = "" /\ out.media # 0
        [] e = "container failure" -> out.error \in {"Container error", "Container scaduto"}
        [] e = "timeout" ->
             /\ out.error = "Timeout"
             /\ Len(SelectSeq(calls, LAMBDA c : c.op = "status")) <= AttemptsOf(request)
        [] OTHER -> out.error \in UpstreamErrors }

\* C27: every platform call returning, a publish workflow that has begun
\* (image, video or carousel, past the validation and the pre-check)
\* eventually ends, in exactly one of: success with a media id, a container
\* failure, the timeout after at most maxAttempts status calls, an upstream
\* error.
C27_WorkflowTerminates ==
  (pubReq.entry # "waitForContainerReady" /\ pubPc \in {"create", "wait", "publish"})
    ~> (pubPc = "done" /\ Cardinality(EndingsOf(pubOut, pubCalls, pubReq)) = 1)

\* an image workflow has ended in the timeout after ten status calls
C27_Witness ==
  /\ pubReq.entry = "publishImage"
  /\ pubPc = "done"
  /\ pubOut.error = "Timeout"
  /\ Len(StatusSeen) = DefaultAttempts
  /\ EndingsOf(pubOut, pubCalls, pubReq) = {"timeout"}

(***************************************************************************)
(* Concurrent publishImage requests, the platform's publishing quota and   *)
(* GET /rate-limit                                                         *)
(***************************************************************************)
\* bounds: the number of concurrent requests and the account's quota_total
MaxClients == 2
QuotaTotal == 2

limitReached_never(usage, total) == FALSE

\* the comparison of the pre-check of publishImage and publishVideo
limitReached(usage, total) == usage >= total

\* the request after its await of checkPublishingLimit: 429 when the limit
\* is reached; a failure of the call is caught and the request goes on
preCheck(result, usage, total) ==
  IF result # "ok" THEN Inflight("publish", -1, 0)
  ELSE IF limitReached(usage, total) THEN Inflight("done", usage, 429)
  ELSE Inflight("publish", usage, 0)

\* checkRateLimit: 400 without the two query parameters, 500 when
\* checkPublishingLimit throws, the report otherwise
checkRateLimit(params, result, usage, total) ==
  IF ~params THEN RateReport(400, 0, 0, 0, FALSE)
  ELSE IF result # "ok" THEN RateReport(500, 0, 0, 0, FALSE)
  ELSE LET remaining == total - usage
       IN  RateReport(200, usage, total, remaining, remaining = 0)

QuotaInit ==
  /\ now = TickStep
  /\ ticks = 0
  /\ nonceCtr = 1
  /\ issued = {}
  /\ call = NoCall
  /\ OAuthIdle
  /\ WebhookIdle
  /\ HubIdle
  /\ PublishIdle
  /\ quotaUsage \in 0..QuotaTotal
  /\ inflight = [c \in 1..MaxClients |-> Inflight("idle", -1, 0)]
  /\ rateReport = NoReport

\* a publishImage request arrives and passes the validation
PublishImage(c) ==
  /\ inflight[c].pc = "idle"
  /\ inflight' = [inflight EXCEPT ![c].pc = "limit"]
  /\ UNCHANGED << now, ticks, nonceCtr, issued, call, oauthVars, webhookVars, hubVars,
                  publishVars, quotaUsage, rateReport >>

\* its checkPublishingLimit call returns what the platform holds then
PreCheck(c, result) ==
  /\ inflight[c].pc = "limit"
  /\ inflight' = [inflight EXCEPT ![c] = preCheck(result, quotaUsage, QuotaTotal)]
  /\ UNCHANGED << now, ticks, nonceCtr, issued, call, oauthVars, webhookVars, hubVars,
                  publishVars, quotaUsage, rateReport >>

\* its publishSingleImage call ends: the media was published, which the
\* platform counts, or the workflow threw
PublishSingleImage(c, result) ==
  /\ inflight[c].pc = "publish"
  /\ inflight' = [inflight EXCEPT ![c].pc = "done",
                                  ![c].status = IF result = "ok" THEN 200 ELSE 500]
  /\ quotaUsage' = IF result = "ok" THEN quotaUsage + 1 ELSE quotaUsage
  /\ UNCHANGED << now, ticks, nonceCtr, issued, call, oauthVars, webhookVars, hubVars,
                  publishVars, rateReport >>

CheckRateLimit(params, result) ==
  /\ rateReport' = checkRateLimit(params, result, quotaUsage, QuotaTotal)
  /\ UNCHANGED << now, ticks, nonceCtr, issued, call, oauthVars, webhookVars, hubVars,
                  publishVars, quotaUsage, inflight >>

QuotaNext ==
  \/ \E c \in 1..MaxClients : PublishImage(c)
  \/ \E c \in 1..MaxClients, result \in {"ok"} \cup HttpErrors : PreCheck(c, result)
  \/ \E c \in 1..MaxClients, result \in {"ok", "failed"} : PublishSingleImage(c, result)
  \/ \E params \in BOOLEAN, result \in {"ok"} \cup HttpErrors : CheckRateLimit(params, result)

QuotaSpec == QuotaInit /\ [][QuotaNext]_vars

(***************************************************************************)
(* Properties of the quota                                                 *)
(***************************************************************************)
\* C26: the pre-check is the only place where the quota stops a request,
\* and it decides on the usage it read itself: a request is answered 429
\* exactly when its own pre-check read a usage at or above quota_total, and
\* a request whose pre-check read a usage below quota_total (or read none)
\* goes on to publish whatever the usage has become since.
C26_PreCheckAdvisory ==
  \A c \in 1..MaxClients :
    /\ inflight[c].status = 429 <=> (inflight[c].pc = "done" /\ inflight[c].seen >= QuotaTotal)
    /\ inflight[c].pc = "publish" => inflight[c].seen < QuotaTotal
    /\ inflight[c].status = 200 => inflight[c].seen < QuotaTotal

\* two requests both read a usage one below quota_total, both published,
\* and the usage is above quota_total
C26_Witness ==
  /\ \A c \in 1..2 : /\ inflight[c].seen = QuotaTotal - 1
                      /\ inflight[c].status = 200
  /\ quotaUsage > QuotaTotal

\* C30: a /rate-limit report agrees with the pre-check of the publish
\* controllers: limit_reached is true exactly when quota_usage >=
\* quota_total, and quota_remaining is quota_total - quota_usage and is
\* never negative.
C30_ReportAgreesWithPreCheck ==
  rateReport.status = 200 =>
    /\ rateReport.limit_reached <=> rateReport.quota_usage >= rateReport.quota_total
    /\ rateReport.quota_remaining = rateReport.quota_total - rateReport.quota_usage
    /\ rateReport.quota_remaining >= 0
====
